---- MODULE Spec2Model ----
(***************************************************************************)
(* State-machine model of the SPD5118 hwmon/EEPROM driver (spd5118.c).      *)
(*                                                                         *)
(* One attached device, one mutex (update_lock), the cached page           *)
(* (current_page), the hardware behind the bus (page-select register MR11, *)
(* the 8 x 128 byte EEPROM), and a set of threads that each run one driver *)
(* entry point at a time: spd5118_read, spd5118_write, eeprom_read.        *)
(* A step of a thread runs from one blocking point (mutex_lock, a bus       *)
(* transaction) to the next, so it issues at most one bus transaction.     *)
(***************************************************************************)
EXTENDS Integers, Sequences, FiniteSets, TLC

(***************************************************************************)
(* Program constants                                                       *)
(***************************************************************************)
SPD5118_REG_TYPE == 0
SPD5118_REG_REVISION == 2
SPD5118_REG_VENDOR == 3
SPD5118_REG_I2C_LEGACY_MODE == 11
SPD5118_REG_TEMP_CLR == 19
SPD5118_REG_TEMP_MAX == 28
SPD5118_REG_TEMP_MIN == 30
SPD5118_REG_TEMP_CRIT == 32
SPD5118_REG_TEMP_LCRIT == 34
SPD5118_REG_TEMP == 49
SPD5118_REG_TEMP_STATUS == 51

SPD5118_NUM_PAGES == 8
SPD5118_PAGE_SIZE == 128
SPD5118_PAGE_SHIFT == 7
SPD5118_EEPROM_BASE == 128
SPD5118_EEPROM_SIZE == SPD5118_PAGE_SIZE * SPD5118_NUM_PAGES

SPD5118_TEMP_UNIT == 1000 \div 4
SPD5118_TEMP_RANGE_MIN == -256000
SPD5118_TEMP_RANGE_MAX == 255750

EOPNOTSUPP == 95
EINVAL == 22
ENODEV == 19
ENOMEM == 12

(***************************************************************************)
(* Bounds of the model                                                     *)
(***************************************************************************)
\* largest count of the small bulk reads tried at every sampled offset
MaxCount == 3
\* the per-call count of bus transactions saturates here
TxCap == 2
\* most bytes one block transaction of the transport moves
BlockMax == 32
\* lengths a block transaction may return short of the length asked for
ShortLens == {0, 1}

Threads == {"t1", "t2"}
NoThread == "none"

\* error codes a failing bus transaction returns
BusErrors == {-5, -6}

Min(a, b) == IF a < b THEN a ELSE b

RECURSIVE Pow2(_)
Pow2(n) == IF n = 0 THEN 1 ELSE 2 * Pow2(n - 1)

\* x >> n and x & (2^n - 1) for x >= 0
Shr(x, n) == x \div Pow2(n)
LowBits(x, n) == x % Pow2(n)
\* conversion to u16
U16(x) == x % 65536

(***************************************************************************)
(* long values (the val argument of the write entry point): the 64-bit     *)
(* two's complement value hi * 2^32 + mid * 2^16 + low.                    *)
(***************************************************************************)
LongOf(i) ==
    [hi |-> IF i < 0 THEN -1 ELSE 0, mid |-> (i \div 65536) % 65536, low |-> i % 65536]
\* the C truth value of a long: if (val)
LongNonZero(v) == v.hi # 0 \/ v.mid # 0 \/ v.low # 0
\* conversion of a long to int keeps the low 32 bits
LongToInt(v) == (IF v.mid >= 32768 THEN v.mid - 65536 ELSE v.mid) * 65536 + v.low

(***************************************************************************)
(* Temperature codec                                                       *)
(***************************************************************************)
\* sign_extend32(value, index): bit 'index' of value is the sign bit
sign_extend32(value, index) ==
    LET m == Pow2(index + 1)
        x == value % m
    IN  IF x >= Pow2(index) THEN x - m ELSE x

\* the sign-extended value is stored back into the u16 parameter
spd5118_temp_from_reg(reg) ==
    LET reg2 == U16(sign_extend32(Shr(reg, 2), 11))
    IN  reg2 * SPD5118_TEMP_UNIT

\* C division truncates toward zero
CDiv(a, b) == IF a >= 0 THEN a \div b ELSE -((-a) \div b)

clamp_val(v, lo, hi) == IF v < lo THEN lo ELSE IF v > hi THEN hi ELSE v

\* temp is an int; & 0x7ff of a negative int is its two's complement low bits
spd5118_temp_to_reg(temp) ==
    LET t == clamp_val(temp, SPD5118_TEMP_RANGE_MIN, SPD5118_TEMP_RANGE_MAX)
    IN  U16(((CDiv(t, SPD5118_TEMP_UNIT)) % 2048) * 4)

(***************************************************************************)
(* Vendor validator                                                        *)
(***************************************************************************)
\* __builtin_parity(x): 1 when the number of one bits of x is odd
RECURSIVE builtin_parity(_)
builtin_parity(x) == IF x = 0 THEN 0 ELSE ((x % 2) + builtin_parity(x \div 2)) % 2

spd5118_vendor_valid_unmasked(reg) ==
    LET pfx == reg % 256
        id == Shr(reg, 8) % 256
    IN  IF builtin_parity(pfx) = 0 \/ builtin_parity(id) = 0
        THEN FALSE
        ELSE IF id = 0 \/ id = 127 THEN FALSE ELSE TRUE

\* pfx = reg & 0xff, id = reg >> 8 (both u8); id &= 0x7f after the parity test
spd5118_vendor_valid(reg) ==
    LET pfx == reg % 256
        id == Shr(reg, 8) % 256
    IN  IF builtin_parity(pfx) = 0 \/ builtin_parity(id) = 0
        THEN FALSE
        ELSE LET id7 == id % 128
             IN  IF id7 = 0 \/ id7 = 127 THEN FALSE ELSE TRUE

(***************************************************************************)
(* Attributes of the monitoring framework                                  *)
(***************************************************************************)
TempAttrs == {"temp_input", "temp_max", "temp_min", "temp_crit", "temp_lcrit"}
ThresholdAttrs == {"temp_max", "temp_min", "temp_crit", "temp_lcrit"}
AlarmAttrs == {"temp_max_alarm", "temp_min_alarm", "temp_crit_alarm", "temp_lcrit_alarm"}
\* one attribute and one sensor type the driver does not implement
Attrs == TempAttrs \cup AlarmAttrs \cup {"temp_emergency"}

TempReg_lcritAtPageSelect(attr) ==
    CASE attr = "temp_input" -> SPD5118_REG_TEMP
      [] attr = "temp_max" -> SPD5118_REG_TEMP_MAX
      [] attr = "temp_min" -> SPD5118_REG_TEMP_MIN
      [] attr = "temp_crit" -> SPD5118_REG_TEMP_CRIT
      [] attr = "temp_lcrit" -> SPD5118_REG_I2C_LEGACY_MODE

\* the switch of spd5118_read_temp / spd5118_write_temp
TempReg(attr) ==
    CASE attr = "temp_input" -> SPD5118_REG_TEMP
      [] attr = "temp_max" -> SPD5118_REG_TEMP_MAX
      [] attr = "temp_min" -> SPD5118_REG_TEMP_MIN
      [] attr = "temp_crit" -> SPD5118_REG_TEMP_CRIT
      [] attr = "temp_lcrit" -> SPD5118_REG_TEMP_LCRIT

\* the switch of spd5118_read_alarm: the status bit of the alarm
AlarmStatusMask(attr) ==
    CASE attr = "temp_max_alarm" -> 1
      [] attr = "temp_min_alarm" -> 2
      [] attr = "temp_crit_alarm" -> 4
      [] attr = "temp_lcrit_alarm" -> 8

\* the switch of spd5118_clear_alarm: the clear bit of the alarm
AlarmClrMask_swapped(attr) ==
    CASE attr = "temp_max_alarm" -> 2
      [] attr = "temp_min_alarm" -> 1
      [] attr = "temp_crit_alarm" -> 4
      [] attr = "temp_lcrit_alarm" -> 8

AlarmClrMask(attr) ==
    CASE attr = "temp_max_alarm" -> 1
      [] attr = "temp_min_alarm" -> 2
      [] attr = "temp_crit_alarm" -> 4
      [] attr = "temp_lcrit_alarm" -> 8

(***************************************************************************)
(* The hardware behind the bus                                             *)
(***************************************************************************)
\* content of the EEPROM: byte i of hardware page p
EepromCell(p, i) == (p * 131 + i * 3 + 1) % 256

\* the byte the device returns for bus address a while page p is selected:
\* addresses 0x80..0xFF are the page window, below are the mode registers
HwByte(p, a) ==
    IF a % 256 >= SPD5118_EEPROM_BASE
    THEN EepromCell(p, (a % 256) - SPD5118_EEPROM_BASE)
    ELSE 0

\* words the temperature and threshold registers may hold
RegWords == {400, 4096}
\* values the alarm status register may hold
StatusBytes == {5, 10}
\* the page the hardware has selected when the device is attached
AttachPages == {0, 7}

\* the thread whose calls range over all the sampled arguments; the other
\* threads interfere with one call of each kind
Primary == "t1"

\* arguments of the calls of the read entry point
ReadArgs(t) ==
    IF t = Primary
    THEN {[type |-> "temp", attr |-> a] : a \in Attrs} \cup {[type |-> "chip", attr |-> "temp_input"]}
    ELSE {[type |-> "temp", attr |-> "temp_input"]}

\* values written through the write entry point
WriteVals ==
    {LongOf(0), LongOf(25000), LongOf(-256001), LongOf(255751), [hi |-> 1, mid |-> 0, low |-> 0]}
AlarmVals == {LongOf(0), LongOf(1)}

\* arguments of the calls of the write entry point
WriteArgs(t) ==
    IF t = Primary
    THEN {[type |-> "temp", attr |-> "temp_max", val |-> v] : v \in WriteVals}
         \cup {[type |-> "temp", attr |-> a, val |-> LongOf(-1000)] : a \in ThresholdAttrs}
         \cup {[type |-> "temp", attr |-> a, val |-> v] : a \in AlarmAttrs, v \in AlarmVals}
         \cup {[type |-> "temp", attr |-> "temp_max_alarm", val |-> [hi |-> 1, mid |-> 0, low |-> 0]]}
         \cup {[type |-> "temp", attr |-> a, val |-> LongOf(0)] : a \in {"temp_input", "temp_emergency"}}
         \cup {[type |-> "chip", attr |-> a, val |-> LongOf(0)] : a \in {"temp_max", "temp_max_alarm"}}
    ELSE {[type |-> "temp", attr |-> "temp_lcrit_alarm", val |-> LongOf(0)]}

\* offsets the bulk reads start at
Offsets == {0, 126, 127, 128, 1021, 1023}
\* the bulk read requests: short ones at every sampled offset, and one that
\* spans three pages and several block transactions
Requests(t) ==
    IF t = Primary
    THEN {r \in [off : Offsets, count : 0..MaxCount] : r.off + r.count <= SPD5118_EEPROM_SIZE}
         \cup {[off |-> 127, count |-> 130]}
    ELSE {[off |-> 1022, count |-> 2]}

VARIABLES
    enable_temp_write,   \* module parameter
    enable_alarm_write,  \* module parameter
    update_lock,         \* data->update_lock: the thread holding it, or NoThread
    current_page,        \* data->current_page
    hwPage,              \* the device's page-select register (MR11)
    pc,                  \* position of each thread in the entry point it runs
    call,                \* the entry point each thread runs and its arguments
    loc,                 \* the local variables of each thread's call
    result,              \* what the finished call returned
    bus,                 \* the bus transaction issued by the last step, if any
    obs,                 \* per call: what it has done on the bus so far
    codec,               \* the temperature codec applied to one raw value
    att                  \* one run of detection or of attach (probe)

driver == <<enable_temp_write, enable_alarm_write, update_lock, current_page,
            hwPage, pc, call, loc, result, bus, obs>>
vars == <<driver, codec, att>>

NoCall == [kind |-> "none", type |-> "none", attr |-> "none", val |-> LongOf(0), off |-> 0, count |-> 0]
NoLoc == [reg |-> 0, mask |-> 0, regval |-> 0, ret |-> 0, off |-> 0, count |-> 0, buf |-> <<>>]
NoResult == [ret |-> 0, val |-> 0, hasval |-> FALSE, data |-> <<>>]
NoTx == [caller |-> NoThread, kind |-> "none", reg |-> 0, val |-> 0, status |-> 0]
NoCodec == [pc |-> "off", r |-> 0, out |-> 0, enc |-> 0, valid |-> FALSE]
NoRecord == [present |-> FALSE, current_page |-> 0, vendor |-> 0, revision |-> 0]
NoAtt == [pc |-> "off", fn |-> "none", func |-> {}, raw |-> 0, typ |-> 0, revision |-> 0,
          vendor |-> 0, ret |-> 0, txs |-> <<>>, rec |-> NoRecord]
NoObs == [ntx |-> 0, firstErr |-> 0, txAfterErr |-> FALSE, lastKind |-> "none",
          stepOff |-> 0, stepCp |-> -1, stepSel |-> 0]

Init ==
    /\ enable_temp_write \in BOOLEAN
    /\ enable_alarm_write \in BOOLEAN
    /\ update_lock = NoThread
    /\ current_page = -1
    /\ hwPage \in AttachPages
    /\ pc = [t \in Threads |-> "idle"]
    /\ call = [t \in Threads |-> NoCall]
    /\ loc = [t \in Threads |-> NoLoc]
    /\ result = [t \in Threads |-> NoResult]
    /\ bus = NoTx
    /\ obs = [t \in Threads |-> NoObs]
    /\ codec = NoCodec
    /\ att = NoAtt

(***************************************************************************)
(* The mutex and the bus                                                   *)
(***************************************************************************)
mutex_lock_nowait(t) == update_lock' = t

\* mutex_lock blocks until the mutex is free
mutex_lock(t) == update_lock = NoThread /\ update_lock' = t

mutex_unlock(t) == update_lock' = NoThread

\* what a call has done on the bus, after one more transaction
ObsTx(o, kind, status) ==
    [o EXCEPT !.ntx = Min(@ + 1, TxCap),
              !.firstErr = IF @ = 0 /\ status < 0 THEN status ELSE @,
              !.txAfterErr = @ \/ o.firstErr # 0,
              !.lastKind = kind]

\* thread t issues one bus transaction in this step
Issue(t, kind, reg, val, status) ==
    bus' = [caller |-> t, kind |-> kind, reg |-> reg, val |-> val, status |-> status]

\* this step issues no bus transaction
NoBus == bus' = NoTx

\* thread t may start a call
CanCall(t) == pc[t] = "idle"

\* the call of thread t goes on at label with locals l
Goto(t, label, l) ==
    /\ pc' = [pc EXCEPT ![t] = label]
    /\ loc' = [loc EXCEPT ![t] = l]
    /\ result' = [result EXCEPT ![t] = NoResult]

\* the call of thread t returns r
Finish(t, r) ==
    /\ pc' = [pc EXCEPT ![t] = "done"]
    /\ loc' = [loc EXCEPT ![t] = NoLoc]
    /\ result' = [result EXCEPT ![t] = r]

Ret(code) == [NoResult EXCEPT !.ret = code]

(***************************************************************************)
(* spd5118_read: dispatch, spd5118_read_temp, spd5118_read_alarm           *)
(***************************************************************************)
\* spd5118_read and the switch of the function it dispatches to
spd5118_read(t) ==
    /\ CanCall(t)
    /\ \E a \in ReadArgs(t) :
        /\ call' = [call EXCEPT ![t] = [NoCall EXCEPT !.kind = "read", !.type = a.type, !.attr = a.attr]]
        /\ IF a.type # "temp" \/ a.attr \notin (TempAttrs \cup AlarmAttrs)
           THEN Finish(t, Ret(-EOPNOTSUPP))
           ELSE IF a.attr \in TempAttrs
           THEN Goto(t, "rt_lock", [NoLoc EXCEPT !.reg = TempReg(a.attr)])
           ELSE Goto(t, "ra_lock", [NoLoc EXCEPT !.mask = AlarmStatusMask(a.attr)])
    /\ obs' = [obs EXCEPT ![t] = NoObs]
    /\ NoBus
    /\ UNCHANGED <<enable_temp_write, enable_alarm_write, update_lock, current_page, hwPage>>

read_temp_lock(t) ==
    /\ pc[t] = "rt_lock"
    /\ mutex_lock(t)
    /\ Goto(t, "rt_xfer", loc[t])
    /\ NoBus
    /\ UNCHANGED <<enable_temp_write, enable_alarm_write, current_page, hwPage, call, obs>>

\* regval = i2c_smbus_read_word_data(client, reg), unlock, return
read_temp_xfer(t) ==
    /\ pc[t] = "rt_xfer"
    /\ \E regval \in RegWords \cup BusErrors :
        /\ Issue(t, "read_word", loc[t].reg, 0, regval)
        /\ obs' = [obs EXCEPT ![t] = ObsTx(@, "read_word", regval)]
        /\ IF regval < 0
           THEN Finish(t, Ret(regval))
           ELSE Finish(t, [NoResult EXCEPT !.val = spd5118_temp_from_reg(regval), !.hasval = TRUE])
    /\ mutex_unlock(t)
    /\ UNCHANGED <<enable_temp_write, enable_alarm_write, current_page, hwPage, call>>

read_alarm_lock(t) ==
    /\ pc[t] = "ra_lock"
    /\ mutex_lock(t)
    /\ Goto(t, "ra_xfer", loc[t])
    /\ NoBus
    /\ UNCHANGED <<enable_temp_write, enable_alarm_write, current_page, hwPage, call, obs>>

\* regval = i2c_smbus_read_byte_data(client, SPD5118_REG_TEMP_STATUS),
\* unlock, return
read_alarm_xfer(t) ==
    /\ pc[t] = "ra_xfer"
    /\ \E regval \in StatusBytes \cup BusErrors :
        /\ Issue(t, "read_byte", SPD5118_REG_TEMP_STATUS, 0, regval)
        /\ obs' = [obs EXCEPT ![t] = ObsTx(@, "read_byte", regval)]
        /\ IF regval < 0
           THEN Finish(t, Ret(regval))
           ELSE Finish(t, [NoResult EXCEPT
                    !.val = IF (regval \div loc[t].mask) % 2 = 1 THEN 1 ELSE 0,
                    !.hasval = TRUE])
    /\ mutex_unlock(t)
    /\ UNCHANGED <<enable_temp_write, enable_alarm_write, current_page, hwPage, call>>

(***************************************************************************)
(* spd5118_write: dispatch, spd5118_write_temp, spd5118_clear_alarm        *)
(***************************************************************************)
TempWriteRefused_never == FALSE

\* if (WARN_ON(!enable_temp_write)) return -EOPNOTSUPP
TempWriteRefused == ~enable_temp_write

AlarmWriteRefused_never == FALSE

\* if (WARN_ON(!enable_alarm_write)) return -EOPNOTSUPP
AlarmWriteRefused == ~enable_alarm_write

\* if (val) return -EINVAL
AlarmValRejected(val) == LongNonZero(val)

\* spd5118_write and the function it dispatches to, up to its mutex_lock
spd5118_write(t) ==
    /\ CanCall(t)
    /\ \E a \in WriteArgs(t) :
        /\ call' = [call EXCEPT ![t] =
                [NoCall EXCEPT !.kind = "write", !.type = a.type, !.attr = a.attr, !.val = a.val]]
        /\ IF a.type # "temp" \/ a.attr \notin (ThresholdAttrs \cup AlarmAttrs)
           THEN Finish(t, Ret(-EOPNOTSUPP))
           ELSE IF a.attr \in ThresholdAttrs
           THEN IF TempWriteRefused
                THEN Finish(t, Ret(-EOPNOTSUPP))
                ELSE Goto(t, "wt_lock", [NoLoc EXCEPT
                            !.reg = TempReg(a.attr),
                            !.regval = spd5118_temp_to_reg(LongToInt(a.val))])
           ELSE IF AlarmValRejected(a.val)
                THEN Finish(t, Ret(-EINVAL))
                ELSE IF AlarmWriteRefused
                THEN Finish(t, Ret(-EOPNOTSUPP))
                ELSE Goto(t, "ca_lock", [NoLoc EXCEPT
                            !.reg = SPD5118_REG_TEMP_CLR,
                            !.regval = AlarmClrMask(a.attr)])
    /\ obs' = [obs EXCEPT ![t] = NoObs]
    /\ NoBus
    /\ UNCHANGED <<enable_temp_write, enable_alarm_write, update_lock, current_page, hwPage>>

write_temp_lock(t) ==
    /\ pc[t] = "wt_lock"
    /\ mutex_lock(t)
    /\ Goto(t, "wt_xfer", loc[t])
    /\ NoBus
    /\ UNCHANGED <<enable_temp_write, enable_alarm_write, current_page, hwPage, call, obs>>

\* ret = i2c_smbus_write_word_data(client, reg, regval), unlock, return
write_temp_xfer(t) ==
    /\ pc[t] = "wt_xfer"
    /\ \E ret \in {0} \cup BusErrors :
        /\ Issue(t, "write_word", loc[t].reg, loc[t].regval, ret)
        /\ obs' = [obs EXCEPT ![t] = ObsTx(@, "write_word", ret)]
        /\ Finish(t, Ret(ret))
    /\ mutex_unlock(t)
    /\ UNCHANGED <<enable_temp_write, enable_alarm_write, current_page, hwPage, call>>

clear_alarm_lock(t) ==
    /\ pc[t] = "ca_lock"
    /\ mutex_lock(t)
    /\ Goto(t, "ca_xfer", loc[t])
    /\ NoBus
    /\ UNCHANGED <<enable_temp_write, enable_alarm_write, current_page, hwPage, call, obs>>

\* ret = i2c_smbus_write_byte_data(client, SPD5118_REG_TEMP_CLR, regval),
\* unlock, return
clear_alarm_xfer(t) ==
    /\ pc[t] = "ca_xfer"
    /\ \E ret \in {0} \cup BusErrors :
        /\ Issue(t, "write_byte", loc[t].reg, loc[t].regval, ret)
        /\ obs' = [obs EXCEPT ![t] = ObsTx(@, "write_byte", ret)]
        /\ Finish(t, Ret(ret))
    /\ mutex_unlock(t)
    /\ UNCHANGED <<enable_temp_write, enable_alarm_write, current_page, hwPage, call>>

(***************************************************************************)
(* eeprom_read, spd5118_eeprom_read, spd5118_set_current_page              *)
(***************************************************************************)
\* page = offset >> SPD5118_PAGE_SHIFT
PageOf(offset) == Shr(offset, SPD5118_PAGE_SHIFT)

\* offset &= (1 << SPD5118_PAGE_SHIFT) - 1
IntraOffset(offset) == LowBits(offset, SPD5118_PAGE_SHIFT)

NeedSelect_unlessUnknown(page) == page # current_page /\ current_page # -1

\* spd5118_set_current_page: if (page == data->current_page) return 0
NeedSelect(page) == page # current_page

ClampCount_none(offset, count) == count

\* if (offset + count > SPD5118_PAGE_SIZE) count = SPD5118_PAGE_SIZE - offset
ClampCount(offset, count) ==
    IF offset + count > SPD5118_PAGE_SIZE THEN SPD5118_PAGE_SIZE - offset ELSE count

\* the lengths i2c_smbus_read_i2c_block_data_or_emulated may return for a
\* u8 length: at most BlockMax bytes, or fewer
BlockLens(length) ==
    LET len == Min(length % 256, BlockMax)
    IN  {len} \cup {n \in ShortLens : n < len}

\* the n bytes the device delivers from bus address command on
BlockData(command, n) == [i \in 1..n |-> HwByte(hwPage, command + i - 1)]

SelectFailed_cached(page) == page

\* current_page after a page-select write that failed: left as it was
SelectFailed(page) == current_page

Advance_offsetOnly(l, n, data) ==
    [l EXCEPT !.ret = n, !.buf = data, !.off = @ + n, !.count = @ - n]

\* buf += ret; off += ret; count -= ret
Advance(l, n, data) ==
    [l EXCEPT !.ret = n, !.buf = @ \o data, !.off = @ + n, !.count = @ - n]

UnlockOnExit_successOnly(t, ret) ==
    IF ret < 0 THEN UNCHANGED update_lock ELSE mutex_unlock(t)

\* out: mutex_unlock(&data->update_lock)
UnlockOnExit(t, ret) == mutex_unlock(t)

ReturnValue_partial(ret, requested, l) ==
    IF ret < 0 /\ Len(l.buf) = 0 THEN ret ELSE IF ret < 0 THEN Len(l.buf) ELSE requested

\* return ret < 0 ? ret : requested
ReturnValue(ret, requested, l) == IF ret < 0 THEN ret ELSE requested

\* out: unlock and return; data is the bytes the return value covers
EepromExit(t, l) ==
    /\ UnlockOnExit(t, l.ret)
    /\ LET r == ReturnValue(l.ret, call[t].count, l)
       IN  Finish(t, [NoResult EXCEPT !.ret = r, !.data = IF r < 0 THEN <<>> ELSE l.buf])

\* eeprom_read up to its mutex_lock
eeprom_read(t) ==
    /\ CanCall(t)
    /\ \E r \in Requests(t) :
        /\ call' = [call EXCEPT ![t] = [NoCall EXCEPT !.kind = "eeprom", !.off = r.off, !.count = r.count]]
        /\ Goto(t, "ee_lock", [NoLoc EXCEPT !.off = r.off, !.count = r.count])
    /\ obs' = [obs EXCEPT ![t] = NoObs]
    /\ NoBus
    /\ UNCHANGED <<enable_temp_write, enable_alarm_write, update_lock, current_page, hwPage>>

eeprom_read_lock(t) ==
    /\ pc[t] = "ee_lock"
    /\ mutex_lock(t)
    /\ Goto(t, "ee_loop", loc[t])
    /\ NoBus
    /\ UNCHANGED <<enable_temp_write, enable_alarm_write, current_page, hwPage, call, obs>>

\* while (count) is false on entry: unlock and return
eeprom_read_out(t) ==
    /\ pc[t] = "ee_loop"
    /\ loc[t].count = 0
    /\ EepromExit(t, loc[t])
    /\ NoBus
    /\ UNCHANGED <<enable_temp_write, enable_alarm_write, current_page, hwPage, call, obs>>

\* a loop iteration whose page is not the current page:
\* spd5118_eeprom_read up to the page-select write of
\* spd5118_set_current_page
spd5118_set_current_page(t) ==
    /\ pc[t] = "ee_loop"
    /\ loc[t].count # 0
    /\ LET page == PageOf(loc[t].off)
           o == [obs[t] EXCEPT !.stepOff = loc[t].off, !.stepCp = current_page, !.stepSel = 1]
       IN  /\ NeedSelect(page)
           /\ \E ret \in {0} \cup BusErrors :
                /\ Issue(t, "write_byte", SPD5118_REG_I2C_LEGACY_MODE, page, ret)
                /\ obs' = [obs EXCEPT ![t] = ObsTx(o, "write_byte", ret)]
                /\ IF ret < 0
                   THEN /\ current_page' = SelectFailed(page)
                        /\ UNCHANGED hwPage
                        /\ EepromExit(t, [loc[t] EXCEPT !.ret = ret])
                   ELSE /\ current_page' = page
                        /\ hwPage' = page
                        /\ Goto(t, "ee_block", loc[t])
                        /\ UNCHANGED update_lock
    /\ UNCHANGED <<enable_temp_write, enable_alarm_write, call>>

\* the block read of spd5118_eeprom_read, after the page-select write or in
\* a loop iteration that needs none, and the rest of the loop body
spd5118_eeprom_read(t) ==
    /\ \/ pc[t] = "ee_block"
       \/ pc[t] = "ee_loop" /\ loc[t].count # 0 /\ ~NeedSelect(PageOf(loc[t].off))
    /\ LET offset == IntraOffset(loc[t].off)
           count == ClampCount(offset, loc[t].count)
           command == SPD5118_EEPROM_BASE + offset
           o == IF pc[t] = "ee_block" THEN obs[t]
                ELSE [obs[t] EXCEPT !.stepOff = loc[t].off, !.stepCp = current_page,
                                    !.stepSel = 0]
       IN  \E ret \in BlockLens(count) \cup BusErrors :
            /\ Issue(t, "read_block", command, count, ret)
            /\ obs' = [obs EXCEPT ![t] = ObsTx(o, "read_block", ret)]
            /\ IF ret < 0
               THEN EepromExit(t, [loc[t] EXCEPT !.ret = ret])
               ELSE LET l == Advance(loc[t], ret, BlockData(command, ret))
                    IN  IF l.count = 0
                        THEN EepromExit(t, l)
                        ELSE Goto(t, "ee_loop", l) /\ UNCHANGED update_lock
    /\ UNCHANGED <<enable_temp_write, enable_alarm_write, current_page, hwPage, call>>

(***************************************************************************)
(* The visibility query                                                    *)
(***************************************************************************)
\* arguments of the calls of the visibility query
VisibleArgs(t) ==
    IF t = Primary
    THEN {[type |-> "temp", attr |-> a] : a \in Attrs} \cup {[type |-> "chip", attr |-> "temp_max"]}
    ELSE {}

\* enable_temp_write ? 0644 : 0444
ThresholdMode == IF enable_temp_write THEN 420 ELSE 292

AlarmMode_byTempFlag == IF enable_temp_write THEN 420 ELSE 292

\* enable_alarm_write ? 0644 : 0444
AlarmMode == IF enable_alarm_write THEN 420 ELSE 292

\* spd5118_is_visible: the mode of the attribute, 0 when it is not present
spd5118_is_visible(t) ==
    /\ CanCall(t)
    /\ \E a \in VisibleArgs(t) :
        /\ call' = [call EXCEPT ![t] = [NoCall EXCEPT !.kind = "visible", !.type = a.type, !.attr = a.attr]]
        /\ LET mode == IF a.type # "temp" THEN 0
                       ELSE IF a.attr = "temp_input" THEN 292
                       ELSE IF a.attr \in ThresholdAttrs THEN ThresholdMode
                       ELSE IF a.attr \in AlarmAttrs THEN AlarmMode
                       ELSE 0
           IN  Finish(t, Ret(mode))
    /\ obs' = [obs EXCEPT ![t] = NoObs]
    /\ NoBus
    /\ UNCHANGED <<enable_temp_write, enable_alarm_write, update_lock, current_page, hwPage>>

\* the caller has taken the result; the thread is free for its next call
Return(t) ==
    /\ pc[t] = "done"
    /\ pc' = [pc EXCEPT ![t] = "idle"]
    /\ call' = [call EXCEPT ![t] = NoCall]
    /\ result' = [result EXCEPT ![t] = NoResult]
    /\ obs' = [obs EXCEPT ![t] = NoObs]
    /\ NoBus
    /\ UNCHANGED <<enable_temp_write, enable_alarm_write, update_lock, current_page, hwPage, loc>>

Step(t) ==
        \/ Return(t)
        \/ spd5118_read(t)
        \/ read_temp_lock(t)
        \/ read_temp_xfer(t)
        \/ read_alarm_lock(t)
        \/ read_alarm_xfer(t)
        \/ spd5118_write(t)
        \/ write_temp_lock(t)
        \/ write_temp_xfer(t)
        \/ clear_alarm_lock(t)
        \/ clear_alarm_xfer(t)
        \/ eeprom_read(t)
        \/ eeprom_read_lock(t)
        \/ eeprom_read_out(t)
        \/ spd5118_set_current_page(t)
        \/ spd5118_eeprom_read(t)
        \/ spd5118_is_visible(t)

Next == (\E t \in Threads : Step(t)) /\ UNCHANGED <<codec, att>>

Spec == Init /\ [][Next]_vars

(***************************************************************************)
(* The temperature codec on its own: every raw 16-bit register value       *)
(***************************************************************************)
InitCodec ==
    /\ enable_temp_write = FALSE
    /\ enable_alarm_write = FALSE
    /\ update_lock = NoThread
    /\ current_page = -1
    /\ hwPage = 0
    /\ pc = [t \in Threads |-> "idle"]
    /\ call = [t \in Threads |-> NoCall]
    /\ loc = [t \in Threads |-> NoLoc]
    /\ result = [t \in Threads |-> NoResult]
    /\ bus = NoTx
    /\ obs = [t \in Threads |-> NoObs]
    /\ codec \in [pc : {"raw"}, r : 0..65535, out : {0}, enc : {0}, valid : {FALSE}]
    /\ att = NoAtt

\* *val = spd5118_temp_from_reg(regval)
Decode ==
    /\ codec.pc = "raw"
    /\ codec' = [codec EXCEPT !.pc = "decoded", !.out = spd5118_temp_from_reg(codec.r)]
    /\ UNCHANGED <<driver, att>>

\* regval = spd5118_temp_to_reg(val), of the value just decoded
Encode ==
    /\ codec.pc = "decoded"
    /\ codec' = [codec EXCEPT !.pc = "encoded", !.enc = spd5118_temp_to_reg(codec.out)]
    /\ UNCHANGED <<driver, att>>

\* spd5118_vendor_valid(vendor), of the raw value as a vendor word
Validate ==
    /\ codec.pc = "raw"
    /\ codec' = [codec EXCEPT !.pc = "validated", !.valid = spd5118_vendor_valid(codec.r)]
    /\ UNCHANGED <<driver, att>>

NextCodec == Decode \/ Encode \/ Validate

SpecCodec == InitCodec /\ [][NextCodec]_vars

(***************************************************************************)
(* Detection and attach: one run of spd5118_detect or of spd5118_probe     *)
(* on a device that answers with sampled words or with a bus error.        *)
(***************************************************************************)
\* the functionality bits detection asks the adapter for
NeededFunc == {"SMBUS_BYTE_DATA", "SMBUS_WORD_DATA"}
\* raw words read from the type register: 0x5118 as the bus delivers it
\* (low byte first), 0x5118 unswapped, and a blank device
TypeWords == {6225, 20760, 0}
\* vendor words: id byte (high) and prefix byte (low)
IdBytes == {0, 3, 4, 127, 128, 134, 255}
PfxBytes == {0, 1, 3, 128}
VendorWords == {256 * id + pfx : id \in IdBytes, pfx \in PfxBytes}
RevisionBytes == {0, 16, 251}

swab16(w) == (w % 256) * 256 + (w \div 256)

i2c_smbus_read_word_unswapped(value) == value

\* i2c_smbus_read_word_swapped: the error, or the word with its bytes swapped
i2c_smbus_read_word_swapped(value) == IF value < 0 THEN value ELSE swab16(value)

\* x < 0 for x declared unsigned int: never true
UnsignedLtZero(x) == FALSE

InitAttach ==
    /\ enable_temp_write = FALSE
    /\ enable_alarm_write = FALSE
    /\ update_lock = NoThread
    /\ current_page = -1
    /\ hwPage = 0
    /\ pc = [t \in Threads |-> "idle"]
    /\ call = [t \in Threads |-> NoCall]
    /\ loc = [t \in Threads |-> NoLoc]
    /\ result = [t \in Threads |-> NoResult]
    /\ bus = NoTx
    /\ obs = [t \in Threads |-> NoObs]
    /\ codec = NoCodec
    /\ att = [NoAtt EXCEPT !.pc = "start"]

\* the run returns code
AttDone(a, code) == [a EXCEPT !.pc = "done", !.ret = code]

\* spd5118_detect up to its first bus read: i2c_check_functionality
spd5118_detect ==
    /\ att.pc = "start"
    /\ \E f \in SUBSET NeededFunc :
        LET a == [att EXCEPT !.fn = "detect", !.func = f]
        IN  att' = IF NeededFunc \subseteq f
                   THEN [a EXCEPT !.pc = "d_type"]
                   ELSE AttDone(a, -ENODEV)
    /\ UNCHANGED <<driver, codec>>

\* cap = i2c_smbus_read_word_swapped(client, SPD5118_REG_TYPE)
detect_type ==
    /\ att.pc = "d_type"
    /\ \E w \in TypeWords \cup BusErrors :
        LET cap == i2c_smbus_read_word_swapped(w)
            a == [att EXCEPT !.raw = w, !.typ = cap, !.txs = Append(@, SPD5118_REG_TYPE)]
        IN  att' = IF cap # 20760
                   THEN AttDone(a, -ENODEV)
                   ELSE [a EXCEPT !.pc = "d_vendor"]
    /\ UNCHANGED <<driver, codec>>

\* vendor = i2c_smbus_read_word_data(client, SPD5118_REG_VENDOR), and the
\* return
detect_vendor ==
    /\ att.pc = "d_vendor"
    /\ \E v \in VendorWords \cup BusErrors :
        LET a == [att EXCEPT !.vendor = v, !.txs = Append(@, SPD5118_REG_VENDOR)]
        IN  att' = IF v < 0 \/ ~spd5118_vendor_valid(v)
                   THEN AttDone(a, -ENODEV)
                   ELSE AttDone(a, 0)
    /\ UNCHANGED <<driver, codec>>

\* spd5118_probe up to the test of typ
spd5118_probe ==
    /\ att.pc = "start"
    /\ \E w \in TypeWords \cup BusErrors :
        LET typ == i2c_smbus_read_word_swapped(w)
            a == [att EXCEPT !.fn = "probe", !.raw = w, !.typ = typ,
                             !.txs = Append(@, SPD5118_REG_TYPE)]
        IN  att' = IF typ # 20760
                   THEN AttDone(a, -ENODEV)
                   ELSE [a EXCEPT !.pc = "p_revision"]
    /\ UNCHANGED <<driver, codec>>

\* revision = i2c_smbus_read_byte_data(client, SPD5118_REG_REVISION)
probe_revision ==
    /\ att.pc = "p_revision"
    /\ \E r \in RevisionBytes \cup BusErrors :
        LET a == [att EXCEPT !.revision = r, !.txs = Append(@, SPD5118_REG_REVISION)]
        IN  att' = IF UnsignedLtZero(r)
                   THEN AttDone(a, -ENODEV)
                   ELSE [a EXCEPT !.pc = "p_vendor"]
    /\ UNCHANGED <<driver, codec>>

\* vendor = i2c_smbus_read_word_data(client, SPD5118_REG_VENDOR)
probe_vendor ==
    /\ att.pc = "p_vendor"
    /\ \E v \in VendorWords \cup BusErrors :
        LET a == [att EXCEPT !.vendor = v, !.txs = Append(@, SPD5118_REG_VENDOR)]
        IN  att' = IF UnsignedLtZero(v)
                   THEN AttDone(a, -ENODEV)
                   ELSE [a EXCEPT !.pc = "p_alloc"]
    /\ UNCHANGED <<driver, codec>>

\* devm_kzalloc and the initialisation of the record: vendor is stored in a
\* u16 and revision in a u8
probe_alloc ==
    /\ att.pc = "p_alloc"
    /\ \E ok \in BOOLEAN :
        att' = IF ~ok
               THEN AttDone(att, -ENOMEM)
               ELSE [att EXCEPT !.pc = "p_register",
                                !.rec = [present |-> TRUE, current_page |-> -1,
                                         vendor |-> att.vendor % 65536,
                                         revision |-> att.revision % 256]]
    /\ UNCHANGED <<driver, codec>>

\* devm_hwmon_device_register_with_info and PTR_ERR_OR_ZERO; a failed probe
\* releases the device-managed record
probe_register ==
    /\ att.pc = "p_register"
    /\ \E err \in {0, -ENOMEM} :
        att' = IF err < 0
               THEN AttDone([att EXCEPT !.rec = NoRecord], err)
               ELSE AttDone(att, 0)
    /\ UNCHANGED <<driver, codec>>

NextAttach ==
    \/ spd5118_detect
    \/ detect_type
    \/ detect_vendor
    \/ spd5118_probe
    \/ probe_revision
    \/ probe_vendor
    \/ probe_alloc
    \/ probe_register

SpecAttach == InitAttach /\ [][NextAttach]_vars

(***************************************************************************)
(* Properties                                                              *)
(***************************************************************************)
\* a thread inside a call that holds no result yet
InCall(t) == pc[t] \notin {"idle", "done"}
\* positions of a thread between its mutex_lock and its mutex_unlock
Locked == {"rt_xfer", "ra_xfer", "wt_xfer", "ca_xfer", "ee_loop", "ee_block"}
\* the page-select write of a bulk read
IsSelect(tx) == tx.kind = "write_byte" /\ tx.reg = SPD5118_REG_I2C_LEGACY_MODE

\* C1: bus transactions of different calls never interleave: when a thread
\* issues a bus transaction, no other thread is inside a call that has
\* already issued one and is not finished, so nothing (no page-select write
\* either) falls between the first and the last transaction of a bulk read.
C1_NoInterleaving ==
    \A t \in Threads : bus.caller = t =>
        \A u \in Threads \ {t} : ~(InCall(u) /\ obs[u].ntx > 0)

\* a bulk read of t1 has selected its page while t2 waits for the mutex
C1_Witness ==
    /\ pc["t1"] = "ee_block" /\ bus.caller = "t1" /\ IsSelect(bus)
    /\ pc["t2"] = "ee_lock"

\* the reference flat memory: byte a is byte (a mod 128) of page (a div 128)
ReferenceFlat(a) == EepromCell(a \div 128, a % 128)

\* C2: a bulk read of N >= 1 bytes at offset, offset + N <= 1024, none of
\* whose bus transactions failed, returns N and delivers the reference flat
\* memory at [offset, offset + N), whatever the page state it started from
\* and whatever the other thread did meanwhile.
C2_BulkReadCorrect ==
    \A t \in Threads :
        (pc[t] = "done" /\ call[t].kind = "eeprom" /\ call[t].count >= 1 /\ obs[t].firstErr = 0)
        => /\ result[t].ret = call[t].count
           /\ result[t].data = [i \in 1..call[t].count |-> ReferenceFlat(call[t].off + i - 1)]

\* the read over three pages is complete; the other thread called its own
\* bulk read meanwhile and waits for the mutex
C2_Witness ==
    /\ pc["t1"] = "done" /\ call["t1"].kind = "eeprom" /\ call["t1"].count = 130
    /\ result["t1"].ret = 130 /\ Len(result["t1"].data) = 130
    /\ pc["t2"] = "ee_lock"

\* C3: every block read stays inside one page: intra_offset + count <= 128,
\* so the bus addresses read lie in the window 0x80..0xFF.
C3_BlockReadInPage ==
    bus.kind = "read_block" =>
        LET intra == bus.reg - 128
        IN  /\ intra >= 0
            /\ bus.val >= 1
            /\ intra + bus.val <= 128
            /\ bus.reg + bus.val - 1 <= 255

\* a block read cut at the end of the page: the request goes on after it
C3_Witness ==
    /\ bus.kind = "read_block" /\ bus.caller = "t1" /\ bus.reg + bus.val = 256
    /\ pc["t1"] = "ee_loop" /\ loc["t1"].count > 0 /\ loc["t1"].off % 128 = 0

\* C4: in each step of a bulk read a page-select write is issued iff the
\* target page (offset >> 7) differs from current_page as it was when the
\* step began (-1 differs from every page); the write carries the target
\* page and precedes the block read of the step.
C4_SelectIffPageDiffers ==
    \A t \in Threads : bus.caller = t =>
        LET target == obs[t].stepOff \div 128
        IN  /\ bus.kind = "read_block" => (obs[t].stepSel = 1 <=> target # obs[t].stepCp)
            /\ IsSelect(bus) => target # obs[t].stepCp /\ bus.val = target /\ obs[t].stepSel = 1

\* the first bulk read after attach reads page 0, which the hardware has
\* selected already: the page-select write was issued all the same
C4_Witness ==
    /\ bus.kind = "read_block" /\ bus.caller = "t1" /\ bus.status > 0
    /\ obs["t1"].stepCp = -1 /\ obs["t1"].stepOff = 0 /\ obs["t1"].stepSel = 1
    /\ obs["t1"].ntx = 2 /\ hwPage = 0

\* C5: a failed page-select write ends the bulk read with that error, with
\* no block read after it, and leaves current_page at its previous value,
\* which is not the page asked for: the next read of that page selects again.
C5_SelectFailure ==
    \A t \in Threads : (bus.caller = t /\ IsSelect(bus) /\ bus.status < 0) =>
        /\ pc[t] = "done"
        /\ result[t].ret = bus.status
        /\ obs[t].lastKind = "write_byte"
        /\ current_page = obs[t].stepCp
        /\ current_page # bus.val

\* the select of page 1 failed in the middle of a read that began in page 0
C5_Witness ==
    /\ bus.caller = "t1" /\ IsSelect(bus) /\ bus.status < 0 /\ bus.val = 1
    /\ current_page = 0 /\ obs["t1"].ntx = 2 /\ result["t1"].ret = bus.status

\* C6: the lock is released on every exit path: a thread that is not between
\* its mutex_lock and its mutex_unlock does not hold the lock, so with no
\* operation inside its locked part the lock is free for the next one, also
\* after an operation that failed.
C6_LockReleased ==
    /\ \A t \in Threads : pc[t] \notin Locked => update_lock # t
    /\ (\A t \in Threads : pc[t] \notin Locked) => update_lock = NoThread

\* a bulk read of t1 failed after its first transactions, and t2 has since
\* taken the lock and completed a bulk read
C6_Witness ==
    /\ pc["t1"] = "done" /\ call["t1"].kind = "eeprom" /\ result["t1"].ret < 0
    /\ obs["t1"].ntx = 2 /\ obs["t1"].lastKind = "read_block"
    /\ pc["t2"] = "done" /\ call["t2"].kind = "eeprom" /\ result["t2"].ret = 2
    /\ bus.caller = "t2"

\* the clear bit the claim gives each alarm
C7_Bit(attr) ==
    CASE attr = "temp_max_alarm" -> Pow2(0)
      [] attr = "temp_min_alarm" -> Pow2(1)
      [] attr = "temp_crit_alarm" -> Pow2(2)
      [] attr = "temp_lcrit_alarm" -> Pow2(3)

\* a finished write of thread t to an alarm attribute
AlarmWriteDone(t) ==
    pc[t] = "done" /\ call[t].kind = "write" /\ call[t].type = "temp" /\ call[t].attr \in AlarmAttrs

\* C7: with alarm writes enabled, a write of a nonzero value to an alarm
\* fails with -EINVAL and issues no bus transaction; a write of zero issues
\* exactly one byte write, to the alarm-clear register, of the alarm's bit
\* alone, and returns what that write returned (0 when it succeeded).
C7_AlarmWrite ==
    \A t \in Threads : (AlarmWriteDone(t) /\ enable_alarm_write) =>
        IF call[t].val # LongOf(0)
        THEN result[t].ret = -22 /\ obs[t].ntx = 0
        ELSE /\ obs[t].ntx = 1
             /\ obs[t].lastKind = "write_byte"
             /\ bus.caller = t =>
                    /\ bus.kind = "write_byte"
                    /\ bus.reg = SPD5118_REG_TEMP_CLR
                    /\ bus.val = C7_Bit(call[t].attr)
                    /\ result[t].ret = bus.status

\* the min alarm has just been cleared with success
C7_Witness ==
    /\ AlarmWriteDone("t1") /\ call["t1"].attr = "temp_min_alarm" /\ call["t1"].val = LongOf(0)
    /\ bus.caller = "t1" /\ bus.status = 0 /\ result["t1"].ret = 0

\* a write of thread t to a threshold attribute
ThresholdWrite(t) ==
    call[t].kind = "write" /\ call[t].type = "temp" /\ call[t].attr \in ThresholdAttrs

\* C8: with threshold writes disabled, every write to a threshold, for every
\* value, returns -EOPNOTSUPP in the step that enters the driver: no bus
\* transaction, the lock not taken, the device state as it was.
C8_ThresholdWriteDisabled ==
    [][\A t \in Threads :
        (pc[t] = "idle" /\ ThresholdWrite(t)' /\ ~enable_temp_write) =>
            /\ pc'[t] = "done"
            /\ result'[t].ret = -95
            /\ bus' = NoTx /\ obs'[t].ntx = 0
            /\ UNCHANGED <<update_lock, current_page, hwPage>>]_vars

\* a threshold write of an out-of-range value was refused while the other
\* thread held the lock
C8_Witness ==
    /\ pc["t1"] = "done" /\ ThresholdWrite("t1") /\ call["t1"].val = LongOf(255751)
    /\ ~enable_temp_write /\ result["t1"].ret = -95
    /\ update_lock = "t2"

\* C9 as stated: with alarm writes disabled, every write to an alarm, zero
\* or nonzero, returns -EOPNOTSUPP and issues no bus transaction.
C9_Original ==
    \A t \in Threads : (AlarmWriteDone(t) /\ ~enable_alarm_write) =>
        result[t].ret = -95 /\ obs[t].ntx = 0

\* C9 amended: with alarm writes disabled, a write of zero to an alarm
\* returns -EOPNOTSUPP and a write of a nonzero value returns -EINVAL; in
\* both cases no bus transaction is issued and the lock is not taken.
C9_AlarmWriteDisabled ==
    \A t \in Threads : (AlarmWriteDone(t) /\ ~enable_alarm_write) =>
        /\ result[t].ret = IF call[t].val = LongOf(0) THEN -95 ELSE -22
        /\ obs[t].ntx = 0
        /\ update_lock # t

\* a clear of the critical alarm was refused with alarm writes disabled
C9_Witness ==
    /\ AlarmWriteDone("t1") /\ call["t1"].attr = "temp_crit_alarm" /\ call["t1"].val = LongOf(0)
    /\ ~enable_alarm_write /\ result["t1"].ret = -95 /\ obs["t1"].ntx = 0

\* the 11-bit two's complement field in bits [12:2] of r, as a number
C10_Field(r) ==
    LET f == (r \div 4) % 2048
    IN  IF f >= 1024 THEN f - 2048 ELSE f

\* C10: for every raw 16-bit r, decode(r) is 250 times the field of bits
\* [12:2] sign-extended from bit 10: a multiple of 250 in [-256000, 255750],
\* negative when the field's sign bit is set.
C10_Decode ==
    codec.pc = "decoded" =>
        /\ codec.out = 250 * C10_Field(codec.r)
        /\ codec.out >= -256000 /\ codec.out <= 255750
        /\ codec.out % 250 = 0

\* the 11-bit field in bits [12:2] of a register word
C11_Bits(w) == (w \div 4) % 2048

\* C11: for every raw 16-bit r, the field in bits [12:2] of
\* encode(decode(r)) equals the field in bits [12:2] of r.
C11_RoundTrip ==
    codec.pc = "encoded" => C11_Bits(codec.enc) = C11_Bits(codec.r)

\* a byte with an odd number of one bits
C13_OddParity(b) == Cardinality({i \in 0..7 : (b \div Pow2(i)) % 2 = 1}) % 2 = 1

\* C13: the validator accepts a 16-bit vendor value iff both bytes have odd
\* parity and the high byte masked to 7 bits lies in 1..126.
C13_VendorValid ==
    codec.pc = "validated" =>
        LET pfx == codec.r % 256
            id == codec.r \div 256
        IN  codec.valid <=>
                /\ C13_OddParity(pfx)
                /\ C13_OddParity(id)
                /\ (id % 128) \in 1..126

\* vendor word 0x8001 (id 0x80 with odd parity, masked id 0) was rejected
C13_Witness ==
    codec.pc = "validated" /\ codec.r = 32769 /\ ~codec.valid

\* vendor word 0x0480 (both bytes of odd parity, id 4) was accepted
C13_WitnessAccept ==
    codec.pc = "validated" /\ codec.r = 1152 /\ codec.valid

\* comparisons of a long with the boundaries of the temperature range
C12_Above(v) == v.hi > 0 \/ (v.hi = 0 /\ (v.mid >= 4 \/ v.mid * 65536 + v.low > 255750))
C12_Below(v) ==
    v.hi < -1 \/ (v.hi = -1 /\ (v.mid < 65532 \/ (v.mid - 65536) * 65536 + v.low < -256000))

\* C12: with threshold writes enabled, a threshold write of a long val
\* above 255750 writes the word 0x0FFC to the threshold register, and one
\* of a val below -256000 writes 0x1000.
C12_ClampLong ==
    \A t \in Threads :
        (/\ pc[t] = "done"
         /\ call[t].kind = "write"
         /\ call[t].type = "temp"
         /\ call[t].attr \in ThresholdAttrs
         /\ bus.caller = t
         /\ bus.kind = "write_word")
        => /\ bus.reg = TempReg(call[t].attr)
           /\ C12_Above(call[t].val) => bus.val = 4092
           /\ C12_Below(call[t].val) => bus.val = 4096

\* the type word with its two bytes exchanged
C14_Swapped(w) == (w % 256) * 256 + (w \div 256)
\* the vendor word passes the validator as C13 states it
C14_VendorOk(v) ==
    /\ C13_OddParity(v % 256)
    /\ C13_OddParity(v \div 256)
    /\ ((v \div 256) % 128) \in 1..126
C14_FuncOk == NeededFunc \subseteq att.func
C14_TypeOk == att.raw >= 0 /\ C14_Swapped(att.raw) = 20760

\* C14: detection returns 0 only if the bus supports byte and word
\* transactions, the byte-swapped type word reads 0x5118 and the vendor
\* word is read without error and passes the validator; otherwise it
\* returns -ENODEV, and it issues no bus transaction after the first
\* failed check.
C14_Detect ==
    (att.fn = "detect" /\ att.pc = "done") =>
        /\ att.ret \in {0, -ENODEV}
        /\ att.ret = 0 <=>
                /\ C14_FuncOk
                /\ C14_TypeOk
                /\ att.vendor >= 0
                /\ C14_VendorOk(att.vendor)
        /\ att.txs = IF ~C14_FuncOk THEN <<>>
                     ELSE IF ~C14_TypeOk THEN <<SPD5118_REG_TYPE>>
                     ELSE <<SPD5118_REG_TYPE, SPD5118_REG_VENDOR>>

\* detection confirmed a device whose type word came as 0x1851 on the bus
C14_Witness ==
    /\ att.fn = "detect"
    /\ att.pc = "done"
    /\ att.ret = 0
    /\ att.raw = 6225
    /\ att.txs = <<SPD5118_REG_TYPE, SPD5118_REG_VENDOR>>

\* C17: probe creates the device record only after identity validation: if
\* the type word is not 0x5118, or the revision read or the vendor read
\* fails with a transport error, probe returns -ENODEV and no record
\* exists, so no record holds a value derived from an error code.
C17_ProbeValidates ==
    att.fn = "probe" =>
        /\ att.rec.present =>
                /\ att.typ = 20760
                /\ att.revision >= 0 /\ att.rec.revision = att.revision
                /\ att.vendor >= 0 /\ att.rec.vendor = att.vendor
        /\ (att.pc = "done" /\ (att.typ # 20760 \/ att.revision < 0 \/ att.vendor < 0)) =>
                att.ret = -ENODEV /\ ~att.rec.present

\* the mode C15 gives an attribute: 0444 is 292, 0644 is 420
C15_Mode(type, attr) ==
    IF type = "temp" /\ attr = "temp_input" THEN 292
    ELSE IF type = "temp" /\ attr \in {"temp_min", "temp_max", "temp_crit", "temp_lcrit"}
    THEN (IF enable_temp_write THEN 420 ELSE 292)
    ELSE IF type = "temp" /\ attr \in {"temp_min_alarm", "temp_max_alarm",
                                       "temp_crit_alarm", "temp_lcrit_alarm"}
    THEN (IF enable_alarm_write THEN 420 ELSE 292)
    ELSE 0

\* C15: the visibility query returns read-only for the temperature input,
\* read-write for a threshold iff threshold writes are enabled and for an
\* alarm iff alarm writes are enabled (else read-only), and 0 for every
\* other attribute or sensor type; its step issues no bus transaction,
\* does not touch the lock and leaves the device state unchanged.
C15_Visible ==
    [][\A t \in Threads :
        (pc[t] = "idle" /\ call'[t].kind = "visible" /\ pc'[t] # "idle") =>
            /\ pc'[t] = "done"
            /\ result'[t].ret = C15_Mode(call'[t].type, call'[t].attr)
            /\ bus' = NoTx
            /\ UNCHANGED <<enable_temp_write, enable_alarm_write, update_lock,
                           current_page, hwPage>>]_vars

\* an alarm was reported read-write with only alarm writes enabled, while
\* the other thread held the lock
C15_Witness ==
    /\ pc["t1"] = "done"
    /\ call["t1"].kind = "visible"
    /\ call["t1"].attr = "temp_crit_alarm"
    /\ enable_alarm_write /\ ~enable_temp_write
    /\ result["t1"].ret = 420
    /\ update_lock = "t2"

\* C16: in every runtime operation the error code of the first failing bus
\* transaction is the return value of the call, the call issues no further
\* transaction, and a bulk read that fails after some bytes were
\* transferred returns the error and no bytes.
C16_ErrorsPropagated ==
    \A t \in Threads :
        obs[t].firstErr # 0 =>
            /\ pc[t] = "done"
            /\ result[t].ret = obs[t].firstErr
            /\ ~obs[t].txAfterErr
            /\ ~result[t].hasval
            /\ result[t].data = <<>>

\* the bulk read of 130 bytes from offset 127 failed at the block read of
\* its second page, after the byte of the first page was transferred
C16_Witness ==
    /\ pc["t1"] = "done"
    /\ call["t1"].kind = "eeprom"
    /\ call["t1"].count = 130
    /\ bus.caller = "t1"
    /\ bus.kind = "read_block"
    /\ bus.reg = SPD5118_EEPROM_BASE
    /\ bus.status < 0
    /\ result["t1"].ret = bus.status

\* C18: in every reachable state of an attached device, with bulk reads in
\* [0, 1024) and failed page-select writes leaving the hardware unchanged,
\* current_page is -1 or in 0..7, and when it is not -1 the page-select
\* register of the hardware holds exactly current_page.
C18_PageCoherence ==
    /\ current_page \in {-1} \cup (0 .. SPD5118_NUM_PAGES - 1)
    /\ current_page # -1 => hwPage = current_page

\* t2's select of page 7 failed while page 1, selected by t1, was cached:
\* the cache and the hardware both still hold page 1
C18_Witness ==
    /\ bus.caller = "t2" /\ IsSelect(bus) /\ bus.status < 0 /\ bus.val = 7
    /\ current_page = 1
    /\ hwPage = 1

\* C19: the bulk read terminates and releases the lock when each block read
\* returns an error or between 0 and the clamped count bytes. As a variant
\* over finite runs: every block read of a bulk read either ends the call,
\* with the lock released and the requested count or the error returned,
\* or leaves strictly fewer bytes to read.
C19_Terminates ==
    [][\A t \in Threads :
        (/\ pc[t] \in {"ee_loop", "ee_block"}
         /\ bus'.caller = t
         /\ bus'.kind = "read_block") =>
            \/ /\ pc'[t] = "done"
               /\ update_lock' # t
               /\ result'[t].ret \in {call[t].count} \cup BusErrors
            \/ /\ pc'[t] = "ee_loop"
               /\ loc'[t].count < loc[t].count]_vars

\* C20: only the bulk read touches the page state. Every step of a
\* temperature, threshold or alarm read, of a threshold write, of an alarm
\* clear and of the visibility query leaves current_page and the page of
\* the hardware unchanged and writes no page-select register; a successful
\* temperature, threshold or alarm read has issued exactly one bus
\* transaction, a read.
C20_Frame ==
    [][\A t \in Threads :
        (/\ call'[t].kind \in {"read", "write", "visible"}
         /\ pc'[t] # pc[t]
         /\ pc'[t] # "idle") =>
            /\ UNCHANGED <<current_page, hwPage>>
            /\ (bus'.caller = t /\ bus'.kind \in {"write_byte", "write_word"}) =>
                    bus'.reg # SPD5118_REG_I2C_LEGACY_MODE
            /\ bus'.caller = t => bus'.kind \notin {"read_block"}
            /\ (call'[t].kind = "read" /\ pc'[t] = "done" /\ result'[t].ret = 0) =>
                    /\ result'[t].hasval
                    /\ obs'[t].ntx = 1
                    /\ bus'.caller = t
                    /\ bus'.kind \in {"read_word", "read_byte"}]_vars

\* t1 read an alarm that is set with a single byte read, while page 7,
\* selected by a bulk read of t2, stayed cached
C20_Witness ==
    /\ pc["t1"] = "done"
    /\ call["t1"].kind = "read"
    /\ call["t1"].attr = "temp_max_alarm"
    /\ result["t1"].hasval /\ result["t1"].val = 1
    /\ obs["t1"].ntx = 1
    /\ bus.caller = "t1" /\ bus.kind = "read_byte"
    /\ current_page = 7 /\ hwPage = 7

====
